---- MODULE Spec2Model ----
(***************************************************************************)
(* A model of the flower shop simulation: the RealTimeFlowerShop object    *)
(* of src/src/flower_shop.py, the sqlite tables it appends to, and the     *)
(* start/stop/reset handlers and the background worker of src/src/app.py.  *)
(*                                                                         *)
(* Money and quantities are integers.  Every float of the source that the  *)
(* model meets is integer valued (prices are multiples of 10, the daily    *)
(* totals are sums of integer products), so the integer arithmetic below   *)
(* is the float arithmetic of the source; the places where a float is      *)
(* truncated or rounded (int(), round()) are modelled by what Python does. *)
(* Factors with one or two decimals are kept scaled: popularity and the    *)
(* random factors in hundredths, the hour and weekday multipliers in       *)
(* tenths, days_of_supply in tenths.                                       *)
(***************************************************************************)
EXTENDS Integers, Sequences, FiniteSets, TLC

VARIABLES
    shop,        \* the global `shop`: the RealTimeFlowerShop object and its tables
    last,        \* history: the last operation on the shop, with the states it went through
    nops,        \* history: number of operations executed on the shop
    is_running,  \* the global `is_running` of app.py
    workers,     \* the threads started by /api/start: a sequence of program points
    reset_pc,    \* program point of the /api/reset request in flight
    fn,          \* the last call of one of the pure functions: its inputs and its result
    nfaults,     \* history: number of persistence calls that have raised
    racers       \* the program points and locals of two threads inside the shop's methods

vars == <<shop, last, nops, is_running, workers, reset_pc, fn, nfaults, racers>>

----------------------------------------------------------------------------
\* Bounds of the model.

\* operations (steps and manual applies) in a run of Spec
MaxOps == 3

\* steps in a run of SpecDay: a day and the start of the next
MaxDaySteps == 26

\* threads /api/start creates, and operations on the shop (steps and manual
\* cycles), in a run of SpecApp
MaxWorkers == 2
MaxAppSteps == 2

\* steps, and persistence calls that raise, in a run of SpecFault
MaxFaultSteps == 3
MaxFaults == 1

\* inputs of the pure functions in SpecFn
MaxCost == 100
MaxFnInventory == 60
MaxFnSales == 12

----------------------------------------------------------------------------
\* The catalog and the configuration.

INITIAL_BUDGET == 1000000
DAILY_CUSTOMERS == 5000
INITIAL_STOCK == 1000
OPENING_TIME == 8
CLOSING_TIME == 20
HoursPerDay == 24
DaysPerWeek == 7

\* self.flowers, in the insertion order every loop of the source follows:
\* 'Розы', 'Тюльпаны', 'Хризантемы', 'Герберы'
FlowerOrder == <<"Roses", "Tulips", "Chrysanthemums", "Gerberas">>

Flowers == {FlowerOrder[i] : i \in 1..Len(FlowerOrder)}

InitialBasePrice(flower) ==
    CASE flower = "Roses" -> 150
      [] flower = "Tulips" -> 80
      [] flower = "Chrysanthemums" -> 70
      [] flower = "Gerberas" -> 90

Cost(flower) ==
    CASE flower = "Roses" -> 80
      [] flower = "Tulips" -> 40
      [] flower = "Chrysanthemums" -> 35
      [] flower = "Gerberas" -> 45

\* popularity, in hundredths
Popularity(flower) ==
    CASE flower = "Roses" -> 30
      [] flower = "Tulips" -> 20
      [] flower = "Chrysanthemums" -> 15
      [] flower = "Gerberas" -> 12

----------------------------------------------------------------------------
\* Python's arithmetic.

Min(a, b) == IF a <= b THEN a ELSE b
Max(a, b) == IF a >= b THEN a ELSE b

\* round(n / d) for n >= 0, d > 0 when the float n / d is the exact quotient or
\* is not near a half: to the nearest integer, a half to the even one
PyRound(n, d) ==
    LET q == n \div d
        r == n % d
    IN  IF 2 * r < d THEN q
        ELSE IF 2 * r > d THEN q + 1
        ELSE IF q % 2 = 0 THEN q ELSE q + 1

\* The sign of float(n / d) - n / d for n >= 0, d > 0: the IEEE quotient is the
\* exact one rounded to 53 significant bits.  The long division keeps the
\* remainder r (the part of the quotient not yet produced is r / d of the last
\* bit), the count of significant bits produced and the last bit.
RECURSIVE BitLength(_)
BitLength(n) == IF n = 0 THEN 0 ELSE 1 + BitLength(n \div 2)

RECURSIVE DivisionError(_, _, _, _)
DivisionError(r, d, bits, lastbit) ==
    IF r = 0 THEN 0
    ELSE IF bits = 53
         THEN IF 2 * r > d THEN 1
              ELSE IF 2 * r < d THEN -1
              ELSE IF lastbit = 1 THEN 1 ELSE -1
    ELSE LET bit == IF 2 * r >= d THEN 1 ELSE 0
             rest == 2 * r - bit * d
         IN  DivisionError(rest, d, IF bits > 0 \/ bit = 1 THEN bits + 1 ELSE 0, bit)

FloatDivError(n, d) ==
    DivisionError(n % d, d, BitLength(n \div d), (n \div d) % 2)

\* round(n / d, 1) in tenths: the float quotient, rounded correctly to one
\* decimal; where the exact quotient is a tie, the float's error decides, and
\* an exact float tie goes to the even digit
PyRound1(n, d) ==
    LET q == (10 * n) \div d
        r == (10 * n) % d
        e == FloatDivError(n, d)
    IN  IF 2 * r < d THEN q
        ELSE IF 2 * r > d THEN q + 1
        ELSE IF e > 0 THEN q + 1
        ELSE IF e < 0 THEN q
        ELSE IF q % 2 = 0 THEN q ELSE q + 1

RECURSIVE SumOver(_, _)
SumOver(f, S) ==
    IF S = {} THEN 0
    ELSE LET x == CHOOSE y \in S : TRUE IN f[x] + SumOver(f, S \ {x})

----------------------------------------------------------------------------
\* The clock.  current_time counts hours from a Monday 00:00; the minutes and
\* seconds of datetime.now() are carried unchanged by every step and never read.

Hour(t) == t % HoursPerDay
Weekday(t) == (t \div HoursPerDay) % DaysPerWeek

----------------------------------------------------------------------------
\* RealTimeFlowerShop.

\* __init__ at time `now`, with the tables `sales` and `inventory_rows` the
\* database file holds.  calls is history, not a field of the object: the calls
\* of generate_recommendations and apply_recommendations made on the shop, each
\* with the clock time it ran at.
NewShop(now, sales, inventory_rows) ==
    [ budget |-> INITIAL_BUDGET,
      base_price |-> [f \in Flowers |-> InitialBasePrice(f)],
      inventory |-> [f \in Flowers |-> INITIAL_STOCK],
      current_time |-> now,
      today_sales |-> [f \in Flowers |-> 0],
      today_profit |-> [f \in Flowers |-> 0],
      today_revenue |-> 0,
      optimal_prices |-> <<>>,
      purchase_suggestions |-> <<>>,
      sales_table |-> sales,
      inventory_table |-> inventory_rows,
      calls |-> <<>> ]

\* hour_multipliers.get(hour, 0.5), in tenths
HourMultiplier(hour) ==
    CASE hour = 8 -> 3
      [] hour = 12 -> 8
      [] hour = 18 -> 10
      [] hour = 20 -> 5
      [] OTHER -> 5

\* weekday_mult, in tenths
WeekdayMultiplier(weekday) == IF weekday >= 5 THEN 13 ELSE 10

\* generate_daily_demand with random.uniform(0.9, 1.1) = u / 100
GenerateDailyDemand(s, u) ==
    (DAILY_CUSTOMERS * HourMultiplier(Hour(s.current_time))
        * WeekdayMultiplier(Weekday(s.current_time)) * u) \div 10000

\* CurrentPrice with the evening surge tested before the recommendation
CurrentPriceSurgeFirst(optimal_prices, base_price, hour, flower) ==
    IF 18 <= hour /\ hour <= 19 THEN (base_price[flower] * 12) \div 10
    ELSE IF flower \in DOMAIN optimal_prices THEN optimal_prices[flower]
    ELSE base_price[flower]

SurgePrice(base_price) == (base_price * 12) \div 10

IsSurgeHour(hour) == 18 <= hour /\ hour <= 19

\* get_current_price on the fields it reads
CurrentPrice(optimal_prices, base_price, hour, flower) ==
    IF flower \in DOMAIN optimal_prices THEN optimal_prices[flower]
    ELSE IF IsSurgeHour(hour) THEN SurgePrice(base_price[flower])
    ELSE base_price[flower]

GetCurrentPrice(s, flower) ==
    CurrentPrice(s.optimal_prices, s.base_price, Hour(s.current_time), flower)

\* SaveSale with the revenue written to the profit column
SaveSaleRevenueAsProfit(s, flower, quantity, price, profit) ==
    [s EXCEPT !.sales_table = Append(@,
        [timestamp |-> s.current_time, flower |-> flower, quantity |-> quantity,
         price |-> price, profit |-> price * quantity])]

\* save_sale
SaveSale(s, flower, quantity, price, profit) ==
    [s EXCEPT !.sales_table = Append(@,
        [timestamp |-> s.current_time, flower |-> flower, quantity |-> quantity,
         price |-> price, profit |-> profit])]

\* int(hourly_demand * demand_share) with random.uniform(0.8, 1.2) = v / 100
FlowerDemand(hourly_demand, flower, v) ==
    (hourly_demand * Popularity(flower) * v) \div 10000

\* SellFlower selling the whole demand, not clamped to the stock
SellFlowerUnclamped(s, flower, hourly_demand, v) ==
    IF s.inventory[flower] <= 0 THEN s
    ELSE LET possible_sales == FlowerDemand(hourly_demand, flower, v)
             current_price == GetCurrentPrice(s, flower)
             profit == (current_price - Cost(flower)) * possible_sales
         IN  IF possible_sales > 0
             THEN SaveSale(
                    [s EXCEPT !.inventory[flower] = @ - possible_sales,
                              !.today_sales[flower] = @ + possible_sales,
                              !.today_profit[flower] = @ + profit,
                              !.today_revenue = @ + current_price * possible_sales,
                              !.budget = @ + profit],
                    flower, possible_sales, current_price, profit)
             ELSE s

\* SellFlower crediting the budget with the revenue instead of the profit
SellFlowerBudgetByRevenue(s, flower, hourly_demand, v) ==
    IF s.inventory[flower] <= 0 THEN s
    ELSE LET possible_sales == Min(FlowerDemand(hourly_demand, flower, v), s.inventory[flower])
             current_price == GetCurrentPrice(s, flower)
             revenue == current_price * possible_sales
             profit == (current_price - Cost(flower)) * possible_sales
         IN  IF possible_sales > 0
             THEN SaveSale(
                    [s EXCEPT !.inventory[flower] = @ - possible_sales,
                              !.today_sales[flower] = @ + possible_sales,
                              !.today_profit[flower] = @ + profit,
                              !.today_revenue = @ + revenue,
                              !.budget = @ + revenue],
                    flower, possible_sales, current_price, profit)
             ELSE s

\* the body of the sales loop of run_simulation_step for one flower
SellFlower(s, flower, hourly_demand, v) ==
    IF s.inventory[flower] <= 0 THEN s
    ELSE LET flower_demand == FlowerDemand(hourly_demand, flower, v)
             possible_sales == Min(flower_demand, s.inventory[flower])
             current_price == GetCurrentPrice(s, flower)
             cost == Cost(flower)
             revenue == current_price * possible_sales
             profit == (current_price - cost) * possible_sales
         IN  IF possible_sales > 0
             THEN SaveSale(
                    [s EXCEPT !.inventory[flower] = @ - possible_sales,
                              !.today_sales[flower] = @ + possible_sales,
                              !.today_profit[flower] = @ + profit,
                              !.today_revenue = @ + revenue,
                              !.budget = @ + profit],
                    flower, possible_sales, current_price, profit)
             ELSE s

RECURSIVE SalesLoop(_, _, _, _)
SalesLoop(s, i, hourly_demand, noise) ==
    IF i > Len(FlowerOrder) THEN s
    ELSE SalesLoop(SellFlower(s, FlowerOrder[i], hourly_demand, noise[FlowerOrder[i]]),
                   i + 1, hourly_demand, noise)

\* IsOpen with the closing hour included
IsOpenThroughClosing(hour) == OPENING_TIME <= hour /\ hour <= CLOSING_TIME

IsOpen(hour) == OPENING_TIME <= hour /\ hour < CLOSING_TIME

\* run_simulation_step up to the end of the sales: the clock advance and the
\* sales of an open hour
StepSales(s, u, noise) ==
    LET s1 == [s EXCEPT !.current_time = @ + 1]
    IN  IF IsOpen(Hour(s1.current_time))
        THEN SalesLoop(s1, 1, GenerateDailyDemand(s1, u), noise)
        ELSE s1

\* OptimalPrice with int() in the place of round()
OptimalPriceTruncated(cost) ==
    (Min(Max(cost * 20, cost * 13), cost * 30) \div 100) * 10

\* the price optimisation of generate_recommendations for one unit cost:
\* cost * 2.0 clamped to [cost * 1.3, cost * 3.0] (kept in tenths), then
\* round(optimal_price / 10) * 10
OptimalPrice(cost) ==
    LET markup == cost * 20
        floored == Max(markup, cost * 13)
        capped == Min(floored, cost * 30)
    IN  PyRound(capped, 100) * 10

\* avg_sales of generate_recommendations
AvgSales(today_sales, hour) == IF hour > OPENING_TIME THEN today_sales ELSE 10

\* PurchaseSuggestion with the thresholds included (<= 2, <= 5)
PurchaseSuggestionInclusive(current_inventory, avg_sales) ==
    LET ample == avg_sales <= 0
        shown == IF ample THEN 300 ELSE PyRound1(current_inventory, avg_sales)
    IN  IF ~ample /\ current_inventory <= 2 * avg_sales
        THEN [suggestion |-> "URGENT", quantity |-> avg_sales * 7, days_of_supply |-> shown]
        ELSE IF ~ample /\ current_inventory <= 5 * avg_sales
        THEN [suggestion |-> "RESTOCK", quantity |-> avg_sales * 5, days_of_supply |-> shown]
        ELSE [suggestion |-> "OK", quantity |-> 0, days_of_supply |-> shown]

\* PurchaseSuggestion ordering one day of sales for an urgent item
PurchaseSuggestionSmallOrder(current_inventory, avg_sales) ==
    LET ample == avg_sales <= 0
        urgent == ~ample /\ current_inventory < 2 * avg_sales
        restock == ~ample /\ ~urgent /\ current_inventory < 5 * avg_sales
        shown == IF ample THEN 300 ELSE PyRound1(current_inventory, avg_sales)
    IN  IF urgent
        THEN [suggestion |-> "URGENT", quantity |-> avg_sales, days_of_supply |-> shown]
        ELSE IF restock
        THEN [suggestion |-> "RESTOCK", quantity |-> avg_sales * 5, days_of_supply |-> shown]
        ELSE [suggestion |-> "OK", quantity |-> 0, days_of_supply |-> shown]

\* the purchase suggestion of generate_recommendations for one flower, from
\* its inventory and avg_sales; days_of_supply is compared unrounded and
\* stored rounded to one decimal (in tenths)
PurchaseSuggestion(current_inventory, avg_sales) ==
    LET ample == avg_sales <= 0 \* days_of_supply = 30
        urgent == ~ample /\ current_inventory < 2 * avg_sales
        restock == ~ample /\ ~urgent /\ current_inventory < 5 * avg_sales
        shown == IF ample THEN 300 ELSE PyRound1(current_inventory, avg_sales)
    IN  IF urgent
        THEN [suggestion |-> "URGENT", quantity |-> avg_sales * 7, days_of_supply |-> shown]
        ELSE IF restock
        THEN [suggestion |-> "RESTOCK", quantity |-> avg_sales * 5, days_of_supply |-> shown]
        ELSE [suggestion |-> "OK", quantity |-> 0, days_of_supply |-> shown]

\* generate_recommendations: both loops assign every flower
GenerateRecommendations(s) ==
    [s EXCEPT
        !.calls = Append(@, [name |-> "generate_recommendations", time |-> s.current_time]),
        !.optimal_prices = [f \in Flowers |-> OptimalPrice(Cost(f))],
        !.purchase_suggestions =
            [f \in Flowers |->
                PurchaseSuggestion(s.inventory[f],
                                   AvgSales(s.today_sales[f], Hour(s.current_time)))]]

\* CanRestock without the test of the budget
CanRestockUnchecked(budget, cost, quantity) == quantity > 0

\* the guard of a restock in apply_recommendations
CanRestock(budget, cost, quantity) == budget >= cost /\ quantity > 0

\* RestockFlower buying as many units as the budget pays for
RestockFlowerPartial(s, flower) ==
    LET suggestion == s.purchase_suggestions[flower]
        quantity == Min(suggestion.quantity, s.budget \div Cost(flower))
        cost == Cost(flower) * quantity
    IN  IF suggestion.suggestion \in {"URGENT", "RESTOCK"} /\ quantity > 0
        THEN [s EXCEPT !.inventory[flower] = @ + quantity, !.budget = @ - cost]
        ELSE s

\* the body of the purchase loop of apply_recommendations for one flower
RestockFlower(s, flower) ==
    LET suggestion == s.purchase_suggestions[flower]
        quantity == suggestion.quantity
        cost == Cost(flower) * quantity
    IN  IF suggestion.suggestion \in {"URGENT", "RESTOCK"}
           /\ CanRestock(s.budget, cost, quantity)
        THEN [s EXCEPT !.inventory[flower] = @ + quantity, !.budget = @ - cost]
        ELSE s

RECURSIVE RestockLoop(_, _)
RestockLoop(s, i) ==
    IF i > Len(FlowerOrder) THEN s
    ELSE IF FlowerOrder[i] \in DOMAIN s.purchase_suggestions
    THEN RestockLoop(RestockFlower(s, FlowerOrder[i]), i + 1)
    ELSE RestockLoop(s, i + 1)

\* ApplyRecommendations that drops the recommendations it has applied
ApplyRecommendationsConsuming(s) ==
    LET priced == [s EXCEPT !.base_price =
                      [f \in Flowers |-> IF f \in DOMAIN s.optimal_prices
                                         THEN s.optimal_prices[f] ELSE @[f]]]
        called == [priced EXCEPT !.calls =
                      Append(@, [name |-> "apply_recommendations", time |-> s.current_time])]
    IN  [RestockLoop(called, 1) EXCEPT !.optimal_prices = <<>>]

\* apply_recommendations: the prices into the catalog, then the purchases
ApplyRecommendations(s) ==
    LET priced == [s EXCEPT !.base_price =
                      [f \in Flowers |-> IF f \in DOMAIN s.optimal_prices
                                         THEN s.optimal_prices[f] ELSE @[f]]]
        called == [priced EXCEPT !.calls =
                      Append(@, [name |-> "apply_recommendations", time |-> s.current_time])]
    IN  RestockLoop(called, 1)

\* generate_recommendations followed by apply_recommendations
RecommendationCycle(s) == ApplyRecommendations(GenerateRecommendations(s))

\* IsCycleHour holding only while the shop is open
IsCycleHourWhenOpen(hour) == hour % 4 = 0 /\ IsOpen(hour)

IsCycleHour(hour) == hour % 4 = 0

\* run_simulation_step after the sales, before save_inventory
StepCycle(s) ==
    IF IsCycleHour(Hour(s.current_time)) THEN RecommendationCycle(s) ELSE s

\* save_inventory writing its rows only in a step of an open hour
SaveInventoryWhenOpen(s) ==
    IF IsOpen(Hour(s.current_time))
    THEN [s EXCEPT !.inventory_table = @ \o
            [i \in 1..Len(FlowerOrder) |->
                [timestamp |-> s.current_time, flower |-> FlowerOrder[i],
                 quantity |-> s.inventory[FlowerOrder[i]],
                 price |-> GetCurrentPrice(s, FlowerOrder[i])]]]
    ELSE s

\* save_inventory: one row per flower
SaveInventory(s) ==
    [s EXCEPT !.inventory_table = @ \o
        [i \in 1..Len(FlowerOrder) |->
            [timestamp |-> s.current_time, flower |-> FlowerOrder[i],
             quantity |-> s.inventory[FlowerOrder[i]],
             price |-> GetCurrentPrice(s, FlowerOrder[i])]]]

\* RunSimulationStep with the recommendation cycle ahead of the sales
RunSimulationStepCycleFirst(s, u, noise) ==
    LET s1 == [s EXCEPT !.current_time = @ + 1]
        cycled == StepCycle(s1)
    IN  SaveInventory(
            IF IsOpen(Hour(s1.current_time))
            THEN SalesLoop(cycled, 1, GenerateDailyDemand(cycled, u), noise)
            ELSE cycled)

\* run_simulation_step: the shop it leaves
RunSimulationStep(s, u, noise) == SaveInventory(StepCycle(StepSales(s, u, noise)))

\* A persistence call that raises. A fault names the call: save_sale for the
\* flower at a position of the sales loop, or save_inventory at one of its
\* rows, and the statement that raises: cursor.execute (the row is not
\* written) or conn.commit (the row is written into the open transaction of
\* the connection). The tables of the model are what the connection holds.
SaleFaults ==
    [call : {"save_sale"}, index : 1..Len(FlowerOrder), stage : {"execute", "commit"}]

InventoryFaults ==
    [call : {"save_inventory"}, index : 1..Len(FlowerOrder), stage : {"execute"}]
      \cup [call : {"save_inventory"}, index : {Len(FlowerOrder)}, stage : {"commit"}]

Faults == SaleFaults \cup InventoryFaults

\* the sales loop from position i on, up to the save_sale that raises
RECURSIVE FaultySalesLoop(_, _, _, _, _)
FaultySalesLoop(s, i, hourly_demand, noise, fault) ==
    IF i > Len(FlowerOrder) THEN [shop |-> s, raised |-> FALSE]
    ELSE LET sold == SellFlower(s, FlowerOrder[i], hourly_demand, noise[FlowerOrder[i]])
             saved == Len(sold.sales_table) > Len(s.sales_table)
         IN  IF saved /\ fault.call = "save_sale" /\ fault.index = i
             THEN [shop |-> IF fault.stage = "execute"
                            THEN [sold EXCEPT !.sales_table = s.sales_table]
                            ELSE sold,
                   raised |-> TRUE]
             ELSE FaultySalesLoop(sold, i + 1, hourly_demand, noise, fault)

\* save_inventory up to the statement that raises
FaultySaveInventory(s, fault) ==
    IF fault.call = "save_inventory"
    THEN LET written == IF fault.stage = "execute" THEN fault.index - 1
                        ELSE Len(FlowerOrder)
         IN  [shop |-> [s EXCEPT !.inventory_table =
                          @ \o SubSeq(SaveInventory(s).inventory_table,
                                      Len(@) + 1, Len(@) + written)],
              raised |-> TRUE]
    ELSE [shop |-> SaveInventory(s), raised |-> FALSE]

\* FaultyStep of a step that catches the exception and carries on
FaultyStepCarryingOn(s, u, noise, fault) ==
    [shop |-> RunSimulationStep(s, u, noise), raised |-> TRUE]

\* run_simulation_step with a persistence call that raises: there is no
\* handler, the exception leaves the method where it is raised
FaultyStep(s, u, noise, fault) ==
    LET s1 == [s EXCEPT !.current_time = @ + 1]
        sales == IF IsOpen(Hour(s1.current_time))
                 THEN FaultySalesLoop(s1, 1, GenerateDailyDemand(s1, u), noise, fault)
                 ELSE [shop |-> s1, raised |-> FALSE]
    IN  IF sales.raised THEN sales
        ELSE FaultySaveInventory(StepCycle(sales.shop), fault)

\* what run_simulation_step returns
StepResult(s) == <<SumOver(s.today_sales, Flowers), SumOver(s.today_profit, Flowers)>>

----------------------------------------------------------------------------
\* The inputs.

\* datetime.now() at construction: any hour of any day of the week
StartTimes == 0..(HoursPerDay * DaysPerWeek - 1)

\* values of random.uniform(0.9, 1.1), in hundredths
HourlyNoise == {92, 108}

\* values of random.uniform(0.8, 1.2), in hundredths, one draw per flower
NOISE_LOW == 80
NOISE_HIGH == 120

ShareNoise ==
    { [f \in Flowers |-> NOISE_LOW],
      [f \in Flowers |-> NOISE_HIGH],
      [f \in Flowers |-> IF f \in {"Roses", "Chrysanthemums"} THEN NOISE_HIGH ELSE NOISE_LOW] }

----------------------------------------------------------------------------
\* One shop driven by a single owner: steps and manual recommendation cycles,
\* one after another.

NoCall == [op |-> "none"]
NoLast == [op |-> "init"]

InitShop ==
    /\ shop \in {NewShop(now, <<>>, <<>>) : now \in StartTimes}
    /\ last = NoLast
    /\ nops = 0

InitApp ==
    /\ is_running = FALSE
    /\ workers = <<>>
    /\ reset_pc = "idle"

\* no persistence call has raised, no thread is inside a method of the shop
NoRacers == <<>>

InitQuiet ==
    /\ nfaults = 0
    /\ racers = NoRacers

Init ==
    /\ InitShop
    /\ InitApp
    /\ InitQuiet
    /\ fn = NoCall

\* shop.run_simulation_step()
Step ==
    /\ nops < MaxOps
    /\ \E u \in HourlyNoise, noise \in ShareNoise :
        LET mid == StepSales(shop, u, noise)
            done == RunSimulationStep(shop, u, noise)
        IN  /\ shop' = done
            /\ last' = [op |-> "step", pre |-> shop, mid |-> mid,
                        result |-> StepResult(done)]
    /\ nops' = nops + 1
    /\ UNCHANGED <<is_running, workers, reset_pc, fn, nfaults, racers>>

\* shop.generate_recommendations(); shop.apply_recommendations()
ManualApply ==
    /\ nops < MaxOps
    /\ shop' = RecommendationCycle(shop)
    /\ last' = [op |-> "manual", pre |-> shop, mid |-> GenerateRecommendations(shop)]
    /\ nops' = nops + 1
    /\ UNCHANGED <<is_running, workers, reset_pc, fn, nfaults, racers>>

Next == Step \/ ManualApply

Spec == Init /\ [][Next]_vars

----------------------------------------------------------------------------
\* A shop stepped through a day and more, with one value of each random draw.

DayNoise == [f \in Flowers |-> NOISE_HIGH]

DayStep ==
    /\ nops < MaxDaySteps
    /\ \E u \in {108} :
        LET mid == StepSales(shop, u, DayNoise)
            done == RunSimulationStep(shop, u, DayNoise)
        IN  /\ shop' = done
            /\ last' = [op |-> "step", pre |-> shop, mid |-> mid,
                        result |-> StepResult(done)]
    /\ nops' = nops + 1
    /\ UNCHANGED <<is_running, workers, reset_pc, fn, nfaults, racers>>

NextDay == DayStep

SpecDay == Init /\ [][NextDay]_vars

----------------------------------------------------------------------------
\* A shop stepped by one caller while the database may fail: a step either
\* returns or raises out of a persistence call; the caller may step again.

ReturningStep ==
    /\ nops < MaxFaultSteps
    /\ \E u \in {108} :
        LET mid == StepSales(shop, u, DayNoise)
            done == RunSimulationStep(shop, u, DayNoise)
        IN  /\ shop' = done
            /\ last' = [op |-> "step", pre |-> shop, mid |-> mid,
                        result |-> StepResult(done)]
    /\ nops' = nops + 1
    /\ UNCHANGED <<is_running, workers, reset_pc, fn, nfaults, racers>>

RaisingStep ==
    /\ nops < MaxFaultSteps
    /\ nfaults < MaxFaults
    /\ \E u \in {108}, fault \in Faults :
        LET outcome == FaultyStep(shop, u, DayNoise, fault)
        IN  /\ outcome.raised
            /\ shop' = outcome.shop
            /\ last' = [op |-> "raised", pre |-> shop, fault |-> fault]
    /\ nops' = nops + 1
    /\ nfaults' = nfaults + 1
    /\ UNCHANGED <<is_running, workers, reset_pc, fn, racers>>

NextFault == ReturningStep \/ RaisingStep

SpecFault == Init /\ [][NextFault]_vars

----------------------------------------------------------------------------
\* The pure functions, each called once on inputs of bounded sets.

FnBasePrices == {70, 80, 90, 100, 150}
FnOptimalPrices == {70, 160}

InitFn ==
    /\ shop = NewShop(0, <<>>, <<>>)
    /\ last = NoLast
    /\ nops = 0
    /\ InitApp
    /\ InitQuiet
    /\ fn = NoCall

\* get_current_price(flower) on a shop with or without a recommended price
CallGetCurrentPrice ==
    /\ fn = NoCall
    /\ \E flower \in Flowers, base \in FnBasePrices, hour \in 0..(HoursPerDay - 1) :
       \E recommended \in {<<>>} \cup {[f \in {flower} |-> p] : p \in FnOptimalPrices} :
        fn' = [op |-> "get_current_price", flower |-> flower,
               optimal_prices |-> recommended, base_price |-> base, hour |-> hour,
               result |-> CurrentPrice(recommended, [f \in Flowers |-> base], hour, flower)]
    /\ UNCHANGED <<shop, last, nops, is_running, workers, reset_pc, nfaults, racers>>

\* the optimal price of generate_recommendations for a unit cost
CallOptimalPrice ==
    /\ fn = NoCall
    /\ \E cost \in 1..MaxCost :
        fn' = [op |-> "optimal_price", cost |-> cost, result |-> OptimalPrice(cost)]
    /\ UNCHANGED <<shop, last, nops, is_running, workers, reset_pc, nfaults, racers>>

\* the purchase suggestion of generate_recommendations for one flower
CallPurchaseSuggestion ==
    /\ fn = NoCall
    /\ \E inventory \in 0..MaxFnInventory, today_sales \in 0..MaxFnSales,
          hour \in 0..(HoursPerDay - 1) :
        fn' = [op |-> "purchase_suggestion", inventory |-> inventory,
               today_sales |-> today_sales, hour |-> hour,
               result |-> PurchaseSuggestion(inventory, AvgSales(today_sales, hour))]
    /\ UNCHANGED <<shop, last, nops, is_running, workers, reset_pc, nfaults, racers>>

NextFn == CallGetCurrentPrice \/ CallOptimalPrice \/ CallPurchaseSuggestion

SpecFn == InitFn /\ [][NextFn]_vars

----------------------------------------------------------------------------
\* The application: the request handlers of app.py and the worker threads.
\* A worker is at "check" (about to test is_running), at "step" (inside
\* shop.run_simulation_step()), at "sleep" (inside time.sleep(1)) or "done"
\* (it left the loop).

AppStartTimes == {11, 131}

InitAppSpec ==
    /\ shop \in {NewShop(now, <<>>, <<>>) : now \in AppStartTimes}
    /\ last = NoLast
    /\ nops = 0
    /\ InitApp
    /\ InitQuiet
    /\ fn = NoCall

\* POST /api/start
StartSimulation ==
    /\ IF ~is_running
       THEN /\ Len(workers) < MaxWorkers
            /\ is_running' = TRUE
            /\ workers' = Append(workers, "check")
            /\ last' = [op |-> "start", status |-> "started"]
       ELSE /\ last' = [op |-> "start", status |-> "already_running"]
            /\ UNCHANGED <<is_running, workers>>
    /\ UNCHANGED <<shop, nops, reset_pc, fn, nfaults, racers>>

\* POST /api/stop
StopSimulation ==
    /\ IF is_running
       THEN /\ is_running' = FALSE
            /\ last' = [op |-> "stop", status |-> "stopped"]
       ELSE /\ last' = [op |-> "stop", status |-> "not_running"]
            /\ UNCHANGED is_running
    /\ UNCHANGED <<shop, nops, workers, reset_pc, fn, nfaults, racers>>

\* POST /api/reset up to its time.sleep(1)
ResetBegin ==
    /\ reset_pc = "idle"
    /\ is_running' = FALSE
    /\ reset_pc' = "sleep"
    /\ last' = [op |-> "reset", status |-> "sleeping"]
    /\ UNCHANGED <<shop, nops, workers, fn, nfaults, racers>>

\* POST /api/reset after its time.sleep(1): a new shop on the same database file
ResetFinish ==
    /\ reset_pc = "sleep"
    /\ \E now \in AppStartTimes :
        shop' = NewShop(now, shop.sales_table, shop.inventory_table)
    /\ reset_pc' = "idle"
    /\ last' = [op |-> "reset", status |-> "reset"]
    /\ UNCHANGED <<nops, is_running, workers, fn, nfaults, racers>>

\* the steps and manual cycles that ran, and the steps that have begun
OpsBegun == nops + Cardinality({j \in DOMAIN workers : workers[j] = "step"})

\* a worker that begins a step whatever is_running holds
WorkerCheckIgnoringFlag(i) ==
    /\ workers[i] = "check"
    /\ OpsBegun < MaxAppSteps
    /\ workers' = [workers EXCEPT ![i] = "step"]
    /\ UNCHANGED <<shop, last, nops, is_running, reset_pc, fn, nfaults, racers>>

\* while is_running: (a step begins only while the run has steps left, so
\* that a step that has begun always ends)
WorkerCheck(i) ==
    /\ workers[i] = "check"
    /\ is_running => OpsBegun < MaxAppSteps
    /\ workers' = [workers EXCEPT ![i] = IF is_running THEN "step" ELSE "done"]
    /\ UNCHANGED <<shop, last, nops, is_running, reset_pc, fn, nfaults, racers>>

\* shop.run_simulation_step()
WorkerStep(i) ==
    /\ workers[i] = "step"
    /\ \E u \in {108} :
        LET mid == StepSales(shop, u, DayNoise)
            done == RunSimulationStep(shop, u, DayNoise)
        IN  /\ shop' = done
            /\ last' = [op |-> "step", pre |-> shop, mid |-> mid,
                        result |-> StepResult(done)]
    /\ nops' = nops + 1
    /\ workers' = [workers EXCEPT ![i] = "sleep"]
    /\ UNCHANGED <<is_running, reset_pc, fn, nfaults, racers>>

\* time.sleep(1) returns
WorkerWake(i) ==
    /\ workers[i] = "sleep"
    /\ workers' = [workers EXCEPT ![i] = "check"]
    /\ UNCHANGED <<shop, last, nops, is_running, reset_pc, fn, nfaults, racers>>

\* POST /api/recommendations/apply: the shop is set, so the cycle runs
ApplyRequest ==
    /\ OpsBegun < MaxAppSteps
    /\ shop' = RecommendationCycle(shop)
    /\ last' = [op |-> "manual", pre |-> shop, mid |-> GenerateRecommendations(shop)]
    /\ nops' = nops + 1
    /\ UNCHANGED <<is_running, workers, reset_pc, fn, nfaults, racers>>

NextApp ==
    \/ StartSimulation
    \/ StopSimulation
    \/ ResetBegin
    \/ ResetFinish
    \/ ApplyRequest
    \/ \E i \in DOMAIN workers : WorkerCheck(i)
    \/ \E i \in DOMAIN workers : WorkerStep(i)
    \/ \E i \in DOMAIN workers : WorkerWake(i)

SpecApp == InitAppSpec /\ [][NextApp]_vars

\* A worker thread is scheduled. Its test of the flag and the end of its
\* sleep are weakly fair. So is its step: WorkerStep(i) is enabled exactly
\* when the worker is at "step", and weak fairness of it is written out as
\* []<>(not enabled) \/ []<>(taken) with that state predicate for ENABLED.
WorkerPoll(i) ==
    /\ i \in DOMAIN workers
    /\ (WorkerCheck(i) \/ WorkerWake(i))

AtStep(i) == i \in DOMAIN workers /\ workers[i] = "step"

StepReturns(i) ==
    \/ []<>(~AtStep(i))
    \/ []<><<i \in DOMAIN workers /\ WorkerStep(i)>>_vars

SpecAppFair ==
    SpecApp /\ \A i \in 1..MaxWorkers : WF_vars(WorkerPoll(i)) /\ StepReturns(i)

----------------------------------------------------------------------------
\* Two threads on one shop: the worker inside run_simulation_step and the
\* handler of /api/recommendations/apply. Nothing locks the shop, so the
\* budget test, the inventory increment and the budget decrement of the
\* purchase loop of apply_recommendations are steps of their own. A thread
\* keeps its position i in the purchase loop and the locals quantity and cost.

RaceThreads == {"worker", "request"}

RaceStartTimes == {11, 15, 35, 131}

Idle == [pc |-> "idle", i |-> 0, quantity |-> 0, cost |-> 0]

InitRace ==
    /\ shop \in {NewShop(now, <<>>, <<>>) : now \in RaceStartTimes}
    /\ last = NoLast
    /\ nops = 0
    /\ InitApp
    /\ nfaults = 0
    /\ racers = [t \in RaceThreads |-> Idle]
    /\ fn = NoCall

\* the first loop of apply_recommendations
SetBasePrices(s) ==
    [s EXCEPT !.base_price = [f \in Flowers |-> IF f \in DOMAIN s.optimal_prices
                                                THEN s.optimal_prices[f] ELSE @[f]],
              !.calls = Append(@, [name |-> "apply_recommendations",
                                   time |-> s.current_time])]

\* the thread after the purchase loop has dealt with the item at position i
NextItem(t, i) ==
    IF i < Len(FlowerOrder) /\ shop.purchase_suggestions # <<>>
    THEN [pc |-> "check", i |-> i + 1, quantity |-> 0, cost |-> 0]
    ELSE [pc |-> IF t = "worker" THEN "snapshot" ELSE "done",
          i |-> 0, quantity |-> 0, cost |-> 0]

\* run_simulation_step of the worker up to the end of the sales
WorkerSales ==
    /\ racers["worker"].pc = "idle"
    /\ \E u \in HourlyNoise :
        shop' = StepSales(shop, u, DayNoise)
    /\ racers' = [racers EXCEPT !["worker"].pc =
                     IF IsCycleHour(Hour(shop'.current_time))
                     THEN "generate" ELSE "snapshot"]
    /\ UNCHANGED <<last, nops, is_running, workers, reset_pc, fn, nfaults>>

\* the handler of /api/recommendations/apply finds shop set
RequestBegin ==
    /\ racers["request"].pc = "idle"
    /\ racers' = [racers EXCEPT !["request"].pc = "generate"]
    /\ UNCHANGED <<shop, last, nops, is_running, workers, reset_pc, fn, nfaults>>

\* generate_recommendations
RaceGenerate(t) ==
    /\ racers[t].pc = "generate"
    /\ shop' = GenerateRecommendations(shop)
    /\ racers' = [racers EXCEPT ![t].pc = "prices"]
    /\ UNCHANGED <<last, nops, is_running, workers, reset_pc, fn, nfaults>>

\* apply_recommendations: the prices, then on to the purchase loop
RacePrices(t) ==
    /\ racers[t].pc = "prices"
    /\ shop' = SetBasePrices(shop)
    /\ racers' = [racers EXCEPT ![t] = NextItem(t, 0)]
    /\ UNCHANGED <<last, nops, is_running, workers, reset_pc, fn, nfaults>>

\* the purchase loop reads the suggestion of the item and tests the budget
RaceCheck(t) ==
    /\ racers[t].pc = "check"
    /\ LET flower == FlowerOrder[racers[t].i]
           suggestion == shop.purchase_suggestions[flower]
           quantity == suggestion.quantity
           cost == Cost(flower) * quantity
       IN  racers' = [racers EXCEPT ![t] =
              IF suggestion.suggestion \in {"URGENT", "RESTOCK"}
                 /\ CanRestock(shop.budget, cost, quantity)
              THEN [pc |-> "increment", i |-> racers[t].i,
                    quantity |-> quantity, cost |-> cost]
              ELSE NextItem(t, racers[t].i)]
    /\ UNCHANGED <<shop, last, nops, is_running, workers, reset_pc, fn, nfaults>>

\* self.inventory[flower] += quantity
RaceIncrement(t) ==
    /\ racers[t].pc = "increment"
    /\ shop' = [shop EXCEPT !.inventory[FlowerOrder[racers[t].i]] = @ + racers[t].quantity]
    /\ racers' = [racers EXCEPT ![t].pc = "decrement"]
    /\ UNCHANGED <<last, nops, is_running, workers, reset_pc, fn, nfaults>>

\* self.budget -= cost
RaceDecrement(t) ==
    /\ racers[t].pc = "decrement"
    /\ shop' = [shop EXCEPT !.budget = @ - racers[t].cost]
    /\ racers' = [racers EXCEPT ![t] = NextItem(t, racers[t].i)]
    /\ UNCHANGED <<last, nops, is_running, workers, reset_pc, fn, nfaults>>

\* save_inventory at the end of the worker's step
WorkerSnapshot ==
    /\ racers["worker"].pc = "snapshot"
    /\ shop' = SaveInventory(shop)
    /\ racers' = [racers EXCEPT !["worker"].pc = "done"]
    /\ UNCHANGED <<last, nops, is_running, workers, reset_pc, fn, nfaults>>

NextRace ==
    \/ WorkerSales
    \/ RequestBegin
    \/ WorkerSnapshot
    \/ \E t \in RaceThreads : RaceGenerate(t)
    \/ \E t \in RaceThreads : RacePrices(t)
    \/ \E t \in RaceThreads : RaceCheck(t)
    \/ \E t \in RaceThreads : RaceIncrement(t)
    \/ \E t \in RaceThreads : RaceDecrement(t)

SpecRace == InitRace /\ [][NextRace]_vars

----------------------------------------------------------------------------
\* What the claims read off a state.

\* the last operation was a step / a manual recommendation cycle
AfterStep == last.op = "step"
AfterManual == last.op = "manual"

\* the rows the last operation appended to the sales table
NewSales == SubSeq(shop.sales_table, Len(last.pre.sales_table) + 1, Len(shop.sales_table))

\* the calls of the recommendation functions the last operation made
NewCalls == SubSeq(shop.calls, Len(last.pre.calls) + 1, Len(shop.calls))

RECURSIVE SeqSum(_)
SeqSum(numbers) ==
    IF numbers = <<>> THEN 0 ELSE Head(numbers) + SeqSum(Tail(numbers))

Quantities(rows) == [i \in 1..Len(rows) |-> rows[i].quantity]
Profits(rows) == [i \in 1..Len(rows) |-> rows[i].profit]
Revenues(rows) == [i \in 1..Len(rows) |-> rows[i].price * rows[i].quantity]

RowsOf(rows, flower) == SelectSeq(rows, LAMBDA r : r.flower = flower)

\* units of a flower the last operation restocked (its recommendation cycle, if any)
Restocked(flower) == shop.inventory[flower] - last.mid.inventory[flower]

\* a flower the last cycle flagged for purchase and did not restock
Underfunded(flower) ==
    /\ shop.purchase_suggestions[flower].suggestion \in {"URGENT", "RESTOCK"}
    /\ shop.purchase_suggestions[flower].quantity > 0
    /\ Restocked(flower) = 0

----------------------------------------------------------------------------
\* C1: for every item the on-hand quantity is never negative, in every state
\* a sequence of steps and manual recommendation cycles reaches from the
\* constructor's state; a step's sales take from an item at most what is in
\* stock (the quantities of its new sale rows), and a recommendation cycle
\* only adds to it.
C1_InventoryNeverNegative ==
    \A f \in Flowers :
        /\ shop.inventory[f] >= 0
        /\ AfterStep =>
            /\ last.mid.inventory[f] >= 0
            /\ last.pre.inventory[f] - last.mid.inventory[f]
                 = SeqSum(Quantities(RowsOf(NewSales, f)))
            /\ last.pre.inventory[f] - last.mid.inventory[f] <= last.pre.inventory[f]
            /\ shop.inventory[f] >= last.mid.inventory[f]
        /\ AfterManual =>
            /\ last.mid.inventory[f] = last.pre.inventory[f]
            /\ shop.inventory[f] >= last.pre.inventory[f]

\* a step sold an item out (the demand exceeded the stock) and another step's
\* cycle restocked an item
C1_Witness ==
    /\ AfterStep
    /\ \E f \in Flowers :
        /\ last.pre.inventory[f] > 0
        /\ last.mid.inventory[f] = 0
        /\ Restocked(f) > 0

\* C2: the budget is never negative, and what a recommendation cycle (of a step
\* or a manual one) takes from the budget is the cost of the items it restocked:
\* every restock of the cycle, the later ones after the earlier ones, found the
\* budget at least its cost.
C2_RestockWithinBudget ==
    /\ shop.budget >= 0
    /\ (AfterStep \/ AfterManual) =>
        /\ last.mid.budget >= 0
        /\ shop.budget = last.mid.budget
              - SumOver([f \in Flowers |-> Cost(f) * Restocked(f)], Flowers)
        /\ \A f \in Flowers : Restocked(f) > 0 =>
              /\ Restocked(f) = shop.purchase_suggestions[f].quantity
              /\ Cost(f) * Restocked(f) <= last.mid.budget

\* a cycle restocked two items one after another and skipped a third for lack
\* of funds
C2_Witness ==
    /\ (AfterStep \/ AfterManual)
    /\ \E f, g, h \in Flowers :
        /\ f # g
        /\ Restocked(f) > 0
        /\ Restocked(g) > 0
        /\ Underfunded(h)
        /\ Cost(h) * shop.purchase_suggestions[h].quantity > shop.budget

\* the workers inside shop.run_simulation_step()
Stepping == {i \in DOMAIN workers : workers[i] = "step"}

\* the workers that have not left the simulation loop
InLoop == {i \in DOMAIN workers : workers[i] # "done"}

\* C3: under any interleaving of /api/start, /api/stop and /api/reset at most
\* one background worker is stepping: two executions of run_simulation_step
\* never overlap.
C3_NoOverlappingSteps == Cardinality(Stepping) <= 1

\* C4: a step runs the recommendation cycle (generate_recommendations, then at
\* once apply_recommendations, both at the step's clock time) if and only if
\* the hour after its clock advance is divisible by 4, open or closed; so the
\* last 24 steps ran exactly 6 cycles, one at each of the hours 0, 4, 8, 12,
\* 16 and 20.
CycleCalls(time) ==
    << [name |-> "generate_recommendations", time |-> time],
       [name |-> "apply_recommendations", time |-> time] >>

\* the times within the last 24 hours at which generate_recommendations ran
CycleTimesOfLastDay ==
    { shop.calls[i].time : i \in
        { j \in DOMAIN shop.calls :
            /\ shop.calls[j].name = "generate_recommendations"
            /\ shop.calls[j].time > shop.current_time - 24 } }

C4_CycleEveryFourthHour ==
    /\ AfterStep =>
         IF (shop.current_time % 24) % 4 = 0
         THEN NewCalls = CycleCalls(shop.current_time)
         ELSE NewCalls = <<>>
    /\ nops >= 24 =>
        /\ Cardinality(CycleTimesOfLastDay) = 6
        /\ {time % 24 : time \in CycleTimesOfLastDay} = {0, 4, 8, 12, 16, 20}
        /\ Len(SelectSeq(shop.calls, LAMBDA c : c.time > shop.current_time - 24)) = 12

\* more than 24 steps were run, the last one at 4 o'clock, with the shop closed,
\* and it ran a cycle
C4_Witness ==
    /\ nops > 24
    /\ AfterStep
    /\ shop.current_time % 24 = 4
    /\ NewCalls = CycleCalls(shop.current_time)

\* C5: a step whose hour after the clock advance is outside [8, 20) sells
\* nothing: no item's inventory is lower after it, the daily totals are those
\* before it, the budget is not higher and the sales table has no new row.
C5_NoSalesWhenClosed ==
    (AfterStep /\ ~(8 <= shop.current_time % 24 /\ shop.current_time % 24 < 20)) =>
        /\ \A f \in Flowers :
            /\ last.mid.inventory[f] = last.pre.inventory[f]
            /\ shop.inventory[f] >= last.pre.inventory[f]
        /\ shop.today_sales = last.pre.today_sales
        /\ shop.today_profit = last.pre.today_profit
        /\ shop.today_revenue = last.pre.today_revenue
        /\ shop.budget <= last.pre.budget
        /\ shop.sales_table = last.pre.sales_table

\* a step at 20 o'clock, the first closed hour, whose cycle restocked an item
C5_Witness ==
    /\ AfterStep
    /\ shop.current_time % 24 = 20
    /\ \E f \in Flowers : Restocked(f) > 0
    /\ shop.budget < last.pre.budget

\* the effect of the sales of the last step on one flower and on the totals:
\* at most one sale row per flower, of quantity q at price p, takes q from the
\* stock and adds q to the units sold and (p - cost) * q to the flower's profit
SaleEffects ==
    /\ \A f \in Flowers :
        LET rows == RowsOf(NewSales, f)
            q == SeqSum(Quantities(rows))
        IN  /\ Len(rows) <= 1
            /\ last.mid.inventory[f] = last.pre.inventory[f] - q
            /\ last.mid.today_sales[f] = last.pre.today_sales[f] + q
            /\ last.mid.today_profit[f] = last.pre.today_profit[f]
                 + SeqSum([i \in 1..Len(rows) |->
                              (rows[i].price - Cost(f)) * rows[i].quantity])
    /\ last.mid.budget = last.pre.budget
         + SeqSum([i \in 1..Len(NewSales) |->
              (NewSales[i].price - Cost(NewSales[i].flower)) * NewSales[i].quantity])

\* C6 as stated: every sale of q units at price p adds the profit (p - cost) * q
\* to today's revenue as it does to the budget.
C6_RevenueGrowsByProfit ==
    AfterStep =>
        /\ SaleEffects
        /\ last.mid.today_revenue = last.pre.today_revenue
             + SeqSum([i \in 1..Len(NewSales) |->
                  (NewSales[i].price - Cost(NewSales[i].flower)) * NewSales[i].quantity])

\* C6 amended: every sale of q units at price p takes q from the stock, adds q
\* to the units sold, (p - cost) * q to the flower's profit and to the budget,
\* and p * q to today's revenue.
C6_SaleBookkeeping ==
    AfterStep =>
        /\ SaleEffects
        /\ last.mid.today_revenue = last.pre.today_revenue + SeqSum(Revenues(NewSales))

\* a step sold all four flowers, one of them out
C6_Witness ==
    /\ AfterStep
    /\ Len(NewSales) = 4
    /\ \E f \in Flowers : last.mid.inventory[f] = 0
    /\ last.mid.today_revenue > last.pre.today_revenue

C8_CurrentPrice ==
    fn.op = "get_current_price" =>
        IF fn.flower \in DOMAIN fn.optimal_prices
        THEN fn.result = fn.optimal_prices[fn.flower]
        ELSE IF fn.hour \in {18, 19}
        THEN 10 * fn.result = 12 * fn.base_price
        ELSE fn.result = fn.base_price

\* hour 18, no recommendation, base price 100: 120
C8_Witness ==
    /\ fn.op = "get_current_price"
    /\ fn.hour = 18
    /\ fn.optimal_prices = <<>>
    /\ fn.base_price = 100
    /\ fn.result = 120

C10_PurchaseSuggestion ==
    fn.op = "purchase_suggestion" =>
        LET avg_sales == IF fn.hour > 8 THEN fn.today_sales ELSE 10
            r == fn.result
        IN  /\ avg_sales = 0 =>
                r = [suggestion |-> "OK", quantity |-> 0, days_of_supply |-> 300]
            /\ (avg_sales > 0 /\ fn.inventory < 2 * avg_sales) =>
                /\ r.suggestion = "URGENT"
                /\ r.quantity = avg_sales * 7
            /\ (avg_sales > 0 /\ 2 * avg_sales <= fn.inventory
                    /\ fn.inventory < 5 * avg_sales) =>
                /\ r.suggestion = "RESTOCK"
                /\ r.quantity = avg_sales * 5
            /\ (avg_sales > 0 /\ fn.inventory >= 5 * avg_sales) =>
                /\ r.suggestion = "OK"
                /\ r.quantity = 0

\* inventory 5, today_sales 10, after 8 o'clock: URGENT, 70 units, 0.5 days
C10_Witness ==
    /\ fn.op = "purchase_suggestion"
    /\ fn.inventory = 5
    /\ fn.today_sales = 10
    /\ fn.hour > 8
    /\ fn.result = [suggestion |-> "URGENT", quantity |-> 70, days_of_supply |-> 5]

----------------------------------------------------------------------------
\* the last operation ran apply_recommendations
AfterCycle == (AfterStep \/ AfterManual) /\ NewCalls # <<>>

\* the flowers the purchase loop handles before the flower at position i
Before(i) == {FlowerOrder[j] : j \in 1..(i - 1)}

\* the budget when the purchase loop of the last cycle reached position i
BudgetAt(i) ==
    last.mid.budget
      - SumOver([f \in Flowers |-> Cost(f) * Restocked(f)], Before(i))

Flagged(flower) ==
    shop.purchase_suggestions[flower].suggestion \in {"URGENT", "RESTOCK"}

\* C11: a restock is all or nothing. In the purchase loop of a cycle, for an
\* item flagged URGENT or RESTOCK with quantity q and unit cost c: if the
\* budget at that moment is at least c*q the inventory of the item grows by
\* exactly q and the budget falls by exactly c*q; otherwise the inventory of
\* the item and the budget stay as they are, and the loop goes on with the
\* items after it. An item that is not flagged is not restocked.
C11_RestockAllOrNothing ==
    AfterCycle =>
        /\ \A i \in 1..Len(FlowerOrder) :
            LET f == FlowerOrder[i]
                q == shop.purchase_suggestions[f].quantity
            IN  /\ Flagged(f) /\ BudgetAt(i) >= Cost(f) * q =>
                    /\ Restocked(f) = q
                    /\ BudgetAt(i + 1) = BudgetAt(i) - Cost(f) * q
                /\ Flagged(f) /\ BudgetAt(i) < Cost(f) * q =>
                    /\ Restocked(f) = 0
                    /\ BudgetAt(i + 1) = BudgetAt(i)
                /\ ~Flagged(f) => Restocked(f) = 0
        /\ shop.budget = BudgetAt(Len(FlowerOrder) + 1)

\* a cycle in which an item could not be paid for and an item after it in the
\* loop was restocked
C11_Witness ==
    /\ AfterCycle
    /\ \E i, j \in 1..Len(FlowerOrder) :
        /\ i < j
        /\ Flagged(FlowerOrder[i])
        /\ BudgetAt(i) < Cost(FlowerOrder[i]) * shop.purchase_suggestions[FlowerOrder[i]].quantity
        /\ Restocked(FlowerOrder[i]) = 0
        /\ Restocked(FlowerOrder[j]) > 0
        /\ Restocked(FlowerOrder[j]) = shop.purchase_suggestions[FlowerOrder[j]].quantity

----------------------------------------------------------------------------
\* a worker begins a step only on reading is_running as set
StepBeginsOnFlag ==
    \A i \in DOMAIN workers :
        workers[i] # "step" /\ workers'[i] = "step" =>
            workers[i] = "check" /\ is_running

\* a step that has begun ends as a whole step, whatever is_running holds
StepRunsToCompletion ==
    \A i \in DOMAIN workers :
        workers[i] = "step" /\ workers'[i] # "step" =>
            /\ workers'[i] = "sleep"
            /\ last'.op = "step"
            /\ shop'.current_time = shop.current_time + 1
            /\ Len(shop'.inventory_table) = Len(shop.inventory_table) + Len(FlowerOrder)

\* a worker leaves its loop only on reading is_running as clear, for good
LeavesLoopOnFlag ==
    \A i \in DOMAIN workers :
        /\ workers[i] # "done" /\ workers'[i] = "done" =>
              workers[i] = "check" /\ ~is_running
        /\ workers[i] = "done" => workers'[i] = "done"

\* C12: is_running is the worker's only cancellation mechanism and the worker
\* reads it once per loop iteration. After /api/stop has cleared it, and as
\* long as no /api/start sets it again, a step already in progress runs to
\* completion, no worker begins a further step, and every worker eventually
\* leaves its loop and terminates.
C12_StopEndsWorker ==
    /\ [][StepBeginsOnFlag /\ StepRunsToCompletion /\ LeavesLoopOnFlag]_vars
    /\ \A i \in 1..MaxWorkers :
        (i \in DOMAIN workers /\ ~is_running)
            ~> (is_running \/ (i \in DOMAIN workers /\ workers[i] = "done"))

\* the flag was cleared while the only worker was inside a step: the step has
\* just ended as a whole step
C12_Witness ==
    /\ Len(workers) = 1
    /\ workers[1] = "sleep"
    /\ ~is_running
    /\ last.op = "step"
    /\ Len(shop.inventory_table) = Len(FlowerOrder) * nops
    /\ nops > 0

----------------------------------------------------------------------------
\* the rows of a table before an operation are the first rows of it afterwards
IsPrefix(before, after) ==
    /\ Len(before) <= Len(after)
    /\ SubSeq(after, 1, Len(before)) = before

\* the rows the last operation appended to the inventory table
NewSnapshot ==
    SubSeq(shop.inventory_table, Len(last.pre.inventory_table) + 1,
           Len(shop.inventory_table))

\* C13: both logs are append-only along a run of steps. Every completed step,
\* in an open or a closed hour, appends exactly one inventory row per catalog
\* item, stamped with the clock time of that step: after n steps the inventory
\* log holds n * (number of items) rows, the rows of the k-th step carrying
\* the k-th clock time; no step changes or removes a row of the sales log or
\* of the inventory log written before it.
C13_LogsAppendOnly ==
    /\ Len(shop.inventory_table) = nops * Len(FlowerOrder)
    /\ \A k \in 1..Len(shop.inventory_table) :
        /\ shop.inventory_table[k].timestamp
             = shop.current_time - nops + ((k - 1) \div Len(FlowerOrder)) + 1
        /\ shop.inventory_table[k].flower = FlowerOrder[((k - 1) % Len(FlowerOrder)) + 1]
    /\ AfterStep =>
        /\ IsPrefix(last.pre.inventory_table, shop.inventory_table)
        /\ IsPrefix(last.pre.sales_table, shop.sales_table)
        /\ Len(NewSnapshot) = Len(FlowerOrder)
        /\ \A i \in 1..Len(FlowerOrder) :
            /\ NewSnapshot[i].timestamp = shop.current_time
            /\ NewSnapshot[i].flower = FlowerOrder[i]

\* a step of a closed hour that follows steps with sales: it has appended its
\* four rows and no sale
C13_Witness ==
    /\ AfterStep
    /\ nops >= 3
    /\ ~IsOpen(Hour(shop.current_time))
    /\ NewSales = <<>>
    /\ Len(shop.sales_table) > 0
    /\ Len(shop.inventory_table) = nops * Len(FlowerOrder)
    /\ Len(NewSnapshot) = Len(FlowerOrder)

----------------------------------------------------------------------------
\* the last step raised out of a persistence call
AfterRaise == last.op = "raised"

\* the position of a flower in the sales loop
Position(flower) == CHOOSE i \in 1..Len(FlowerOrder) : FlowerOrder[i] = flower

\* units of a flower the sales log holds
Logged(s, flower) == SeqSum(Quantities(RowsOf(s.sales_table, flower)))

\* C14: a failure of save_sale or save_inventory inside run_simulation_step
\* is fatal for that step. The exception leaves the step at the call that
\* raised and nothing after that call runs: after a failed save_sale no later
\* item is sold, no recommendation cycle runs and no inventory row is
\* written; after a failed save_inventory no further row is written. The
\* write is never retried: the failing step writes no second row for the
\* failed call, and a later step logs its own sales and its own four
\* inventory rows only.
C14_PersistenceFailureIsFatal ==
    /\ AfterRaise /\ last.fault.call = "save_sale" =>
        /\ shop.current_time = last.pre.current_time + 1
        /\ \A f \in Flowers :
            /\ Position(f) > last.fault.index =>
                /\ shop.inventory[f] = last.pre.inventory[f]
                /\ shop.today_sales[f] = last.pre.today_sales[f]
                /\ RowsOf(NewSales, f) = <<>>
            /\ Position(f) = last.fault.index =>
                /\ shop.today_sales[f] > last.pre.today_sales[f]
                /\ Len(RowsOf(NewSales, f))
                     = (IF last.fault.stage = "execute" THEN 0 ELSE 1)
        /\ NewCalls = <<>>
        /\ shop.base_price = last.pre.base_price
        /\ shop.optimal_prices = last.pre.optimal_prices
        /\ shop.inventory_table = last.pre.inventory_table
    /\ AfterRaise /\ last.fault.call = "save_inventory" =>
        /\ IsPrefix(last.pre.inventory_table, shop.inventory_table)
        /\ Len(NewSnapshot)
             = (IF last.fault.stage = "execute" THEN last.fault.index - 1
                ELSE Len(FlowerOrder))
    /\ AfterStep =>
        /\ IsPrefix(last.pre.sales_table, shop.sales_table)
        /\ \A f \in Flowers :
            SeqSum(Quantities(RowsOf(NewSales, f)))
              = shop.today_sales[f] - last.pre.today_sales[f]
        /\ Len(NewSnapshot) = Len(FlowerOrder)
        /\ \A i \in 1..Len(FlowerOrder) : NewSnapshot[i].timestamp = shop.current_time
    /\ \A f \in Flowers : Logged(shop, f) <= shop.today_sales[f]

\* a step of an open hour divisible by 4 raised in the save_sale of an item
\* that is not the last: the items after it had stock and were not sold, the
\* cycle of that hour did not run, no inventory row was written
C14_Witness ==
    /\ AfterRaise
    /\ last.fault.call = "save_sale"
    /\ last.fault.stage = "execute"
    /\ last.fault.index < Len(FlowerOrder)
    /\ IsOpen(Hour(shop.current_time))
    /\ IsCycleHour(Hour(shop.current_time))
    /\ NewCalls = <<>>
    /\ shop.inventory_table = last.pre.inventory_table
    /\ \A f \in Flowers : Position(f) > last.fault.index => shop.inventory[f] > 0
    /\ \E f \in Flowers : Logged(shop, f) < shop.today_sales[f]

----------------------------------------------------------------------------
\* units of a flower the last step sold
Sold(flower) == SeqSum(Quantities(RowsOf(NewSales, flower)))

\* C15: a step runs its phases in the order clock advance, sales,
\* recommendation cycle (recompute, then restock), inventory snapshot. The
\* sales of a step, also of a step whose hour is divisible by 4, are stamped
\* with the advanced clock and priced with the prices in effect before the
\* cycle of that step; the snapshot rows record the quantities after the
\* sales and the restocks of that step and the price after its cycle.
C15_PhaseOrder ==
    AfterStep =>
        LET hour == Hour(shop.current_time)
        IN  /\ shop.current_time = last.pre.current_time + 1
            /\ \A k \in 1..Len(NewSales) :
                /\ NewSales[k].timestamp = shop.current_time
                /\ NewSales[k].price
                     = CurrentPrice(last.pre.optimal_prices, last.pre.base_price,
                                    hour, NewSales[k].flower)
            /\ NewCalls = (IF IsCycleHour(hour) THEN CycleCalls(shop.current_time)
                           ELSE <<>>)
            /\ Len(NewSnapshot) = Len(FlowerOrder)
            /\ \A i \in 1..Len(FlowerOrder) :
                LET f == FlowerOrder[i]
                IN  /\ NewSnapshot[i].flower = f
                    /\ NewSnapshot[i].timestamp = shop.current_time
                    /\ NewSnapshot[i].quantity
                         = last.pre.inventory[f] - Sold(f) + Restocked(f)
                    /\ NewSnapshot[i].quantity = shop.inventory[f]
                    /\ NewSnapshot[i].price
                         = CurrentPrice(shop.optimal_prices, shop.base_price, hour, f)

\* the first cycle of a shop, in a step of an open hour: an item was sold at
\* its old price, restocked, and its snapshot row carries the new price and
\* the quantity after the sale and the restock
C15_Witness ==
    /\ AfterStep
    /\ IsCycleHour(Hour(shop.current_time))
    /\ last.pre.calls = <<>>
    /\ \E i \in 1..Len(FlowerOrder) :
        LET f == FlowerOrder[i]
        IN  /\ Sold(f) > 0
            /\ Restocked(f) > 0
            /\ RowsOf(NewSales, f)[1].price = InitialBasePrice(f)
            /\ NewSnapshot[i].price = OptimalPrice(Cost(f))
            /\ NewSnapshot[i].price # InitialBasePrice(f)
            /\ NewSnapshot[i].quantity = last.pre.inventory[f] - Sold(f) + Restocked(f)

----------------------------------------------------------------------------
\* a recommendation cycle has run in this shop
CycleHasRun == shop.calls # <<>>

\* C16: the recommendations are never cleared within a shop. From the first
\* cycle on, in every later state and whatever the hour, get_current_price
\* returns the recommended optimal price of every item, and that price is the
\* base_price apply_recommendations has set; every sale of a step that starts
\* after a cycle is priced at the optimal price, so the hour 18-19 surge
\* price base_price * 1.2 is charged only by steps before the first cycle.
C16_OptimalPriceForGood ==
    /\ CycleHasRun =>
        /\ DOMAIN shop.optimal_prices = Flowers
        /\ \A f \in Flowers :
            /\ shop.optimal_prices[f] = OptimalPrice(Cost(f))
            /\ shop.base_price[f] = shop.optimal_prices[f]
            /\ \A hour \in 0..(HoursPerDay - 1) :
                CurrentPrice(shop.optimal_prices, shop.base_price, hour, f)
                  = shop.optimal_prices[f]
        /\ \A k \in 1..Len(shop.sales_table) :
            shop.sales_table[k].timestamp > shop.calls[1].time =>
                shop.sales_table[k].price = shop.optimal_prices[shop.sales_table[k].flower]
    /\ AfterStep /\ last.pre.calls # <<>> =>
        \A k \in 1..Len(NewSales) :
            /\ NewSales[k].price = last.pre.optimal_prices[NewSales[k].flower]
            /\ NewSales[k].price = OptimalPrice(Cost(NewSales[k].flower))
    /\ \A k \in 1..Len(shop.sales_table) :
        LET row == shop.sales_table[k]
        IN  row.price = SurgePrice(InitialBasePrice(row.flower)) =>
                /\ IsSurgeHour(Hour(row.timestamp))
                /\ CycleHasRun => row.timestamp <= shop.calls[1].time

\* a step of hour 18 or 19 after a cycle: the sale is priced at the optimal
\* price, which is neither the surge price of the old nor of the new base price
C16_Witness ==
    /\ AfterStep
    /\ last.pre.calls # <<>>
    /\ IsSurgeHour(Hour(shop.current_time))
    /\ \E k \in 1..Len(NewSales) :
        LET row == NewSales[k]
        IN  /\ row.price = shop.optimal_prices[row.flower]
            /\ row.price # SurgePrice(InitialBasePrice(row.flower))
            /\ row.price # SurgePrice(shop.base_price[row.flower])
            /\ row.price # InitialBasePrice(row.flower)

----------------------------------------------------------------------------
\* the last operation is a manual cycle that follows a cycle of the same
\* clock hour at once: every step advances the clock, so no step and no sale
\* lies between the two
AfterRepeatedCycle ==
    /\ AfterManual
    /\ last.pre.calls # <<>>
    /\ last.pre.calls[Len(last.pre.calls)].time = shop.current_time

\* what a cycle decides: prices, stock and budget
Decided(s) ==
    [base_price |-> s.base_price, optimal_prices |-> s.optimal_prices,
     inventory |-> s.inventory, budget |-> s.budget]

\* the suggestion generate_recommendations would make for a flower now
SuggestionNow(flower) ==
    PurchaseSuggestion(shop.inventory[flower],
                       AvgSales(shop.today_sales[flower], Hour(shop.current_time)))

\* C17: the recommendation cycle is idempotent when nothing happens in
\* between. A restock lifts the days of supply of the item to 5 or more
\* (category OK), so after generate_recommendations + apply_recommendations a
\* repeated call at once (same clock hour, no sale in between) changes no
\* price and restocks no item the first call restocked; it restocks no other
\* item either, the budget having only shrunk.
C17_CycleIdempotent ==
    /\ AfterCycle =>
        /\ \A f \in Flowers : Restocked(f) > 0 =>
            /\ SuggestionNow(f).suggestion = "OK"
            /\ shop.inventory[f] >= 5 * AvgSales(shop.today_sales[f], Hour(shop.current_time))
        /\ Decided(RecommendationCycle(shop)) = Decided(shop)
    /\ AfterRepeatedCycle =>
        /\ Decided(shop) = Decided(last.pre)
        /\ \A f \in Flowers : Restocked(f) = 0

\* a manual cycle repeated at once after a cycle that had restocked an item
\* (flagged URGENT then, OK now) and had left another unfunded: nothing changed
C17_Witness ==
    /\ AfterRepeatedCycle
    /\ \E f, g \in Flowers :
        /\ last.pre.purchase_suggestions[f].suggestion = "URGENT"
        /\ shop.purchase_suggestions[f].suggestion = "OK"
        /\ last.pre.purchase_suggestions[g].suggestion \in {"URGENT", "RESTOCK"}
        /\ shop.purchase_suggestions[g] = last.pre.purchase_suggestions[g]
    /\ Decided(shop) = Decided(last.pre)

----------------------------------------------------------------------------
\* /api/reset has returned and no request has been handled and no step has
\* ended since
ResetReturned == last.op = "reset" /\ last.status = "reset"

\* the in-memory state of a shop as its constructor leaves it
IsInitialShop(s) ==
    /\ s.budget = INITIAL_BUDGET
    /\ \A f \in Flowers :
        /\ s.inventory[f] = INITIAL_STOCK
        /\ s.today_sales[f] = 0
        /\ s.today_profit[f] = 0
    /\ s.today_revenue = 0
    /\ s.optimal_prices = <<>>
    /\ s.purchase_suggestions = <<>>

\* C18: once /api/reset has returned, and until the next /api/start, the
\* simulation is stopped (is_running is false, no worker is inside a step)
\* and the new shop is in its initial state, under any interleaving of the
\* reset with a running worker and with concurrent /api/start and /api/stop
\* requests.
C18_StoppedAfterReset ==
    ResetReturned =>
        /\ ~is_running
        /\ Stepping = {}
        /\ IsInitialShop(shop)

----------------------------------------------------------------------------
\* C19: the guard of the restock keeps the budget non-negative also when the
\* handler of /api/recommendations/apply runs generate_recommendations and
\* apply_recommendations on the shared shop while the worker is inside
\* run_simulation_step, the budget test, the inventory increment and the
\* budget decrement being separate steps that interleave: no interleaving
\* reaches budget < 0, and no thread is about to deduct a cost that exceeds
\* the budget.
C19_BudgetNonNegativeInRace ==
    /\ shop.budget >= 0
    /\ \A t \in RaceThreads :
        racers[t].pc = "decrement" => racers[t].cost <= shop.budget

====
